---- MODULE Spec2Model ----
(***************************************************************************)
(* Connect-four board and game engine (AlexanderSlav/connect4).            *)
(*                                                                         *)
(* GameBoard (src/src/board.py) is modelled by the variables config, board *)
(* and move_history and by one operator per method; GameEngine             *)
(* (src/src/engine.py) by current_player, game_state, is_single_player and *)
(* the position pc of its play() loop; AIPlayer (src/src/ai_player.py) by  *)
(* operators over the board.  The variable call records the most recent   *)
(* GameBoard call (method, arguments, return value), board_copy the grid   *)
(* a caller holds from get_board_copy, and search the frame of a get_move  *)
(* call that is run one statement at a time.                               *)
(*                                                                         *)
(* Rows are numbered as in the code: row 0 is the top, row rows-1 the      *)
(* bottom; col_idx is 0-based, the column argument col is 1-based.         *)
(***************************************************************************)
EXTENDS Integers, Sequences, FiniteSets, TLC

VARIABLES config, board, move_history, call,
          current_player, game_state, is_single_player, pc,
          board_copy, search

vars == <<config, board, move_history, call,
          current_player, game_state, is_single_player, pc,
          board_copy, search>>

boardVars == <<config, board, move_history>>
engineVars == <<current_player, game_state, is_single_player, pc>>
callerVars == <<board_copy, search>>

-----------------------------------------------------------------------------
(* Bounds of the model.                                                    *)

\* History length up to which the board API specification places pieces.
MaxMoves == 4

\* Out-of-range column arguments tried on each side of [1, cols].
ColMargin == 1

\* The grids check_winner is applied to in SpecGrid: those holding at most
\* MaxPieces pieces and those with at most MaxHoles Empty cells.
MaxPieces == 4
MaxHoles == 0

-----------------------------------------------------------------------------
(* Let(v, F) is LET x == v IN F(x) with v evaluated once, also where an    *)
(* action is evaluated for ENABLED.                                        *)

Let(v, F(_)) == CHOOSE r \in {F(x) : x \in {v}} : TRUE

-----------------------------------------------------------------------------
(* enums.py                                                                *)

Player == {"RED", "YELLOW", "EMPTY"}

\* The two marks a caller ever passes as the player of a move.
Movers == {"RED", "YELLOW"}

opposite(p) ==
    IF p = "RED" THEN "YELLOW"
    ELSE IF p = "YELLOW" THEN "RED"
    ELSE "EMPTY"

GameState == {"PLAYING", "RED_WINS", "YELLOW_WINS", "DRAW"}

MoveResult == {"SUCCESS", "INVALID_COLUMN", "COLUMN_FULL", "GAME_OVER"}

\* The four directions in the order of the enumeration.
Direction ==
    << [delta_row |-> 0, delta_col |-> 1],
       [delta_row |-> 1, delta_col |-> 0],
       [delta_row |-> 1, delta_col |-> 1],
       [delta_row |-> 1, delta_col |-> -1] >>

Position(row, col) == [row |-> row, col |-> col]

is_valid(position, max_rows, max_cols) ==
    /\ 0 <= position.row /\ position.row < max_rows
    /\ 0 <= position.col /\ position.col < max_cols

move_by_direction(position, direction, steps) ==
    Position(position.row + direction.delta_row * steps,
             position.col + direction.delta_col * steps)

-----------------------------------------------------------------------------
(* config.py and the configurations the tests build boards from            *)

small_config == [rows |-> 4, cols |-> 4, win_length |-> 3]

Configs == {small_config}

\* Field(ge=..., le=...) of an int field.
field_in_range(v, ge, le) == v >= ge /\ v <= le

\* info.data when win_length is validated: the fields declared before it
\* whose own validation passed.
validated_data(c) ==
    [field \in {f \in {"rows", "cols"} :
                   \/ f = "rows" /\ field_in_range(c.rows, 4, 10)
                   \/ f = "cols" /\ field_in_range(c.cols, 4, 10)} |-> c[field]]

\* dict.get(key, default)
dict_get(data, key, default) ==
    IF key \in DOMAIN data THEN data[key] ELSE default

\* validate_win_length comparing with the smaller dimension.
validate_win_length_min_dimension(v, data) ==
    /\ DOMAIN data # {}
    /\ LET rows == dict_get(data, "rows", 6)
           cols == dict_get(data, "cols", 7)
           min_dimension == IF rows <= cols THEN rows ELSE cols
       IN v > min_dimension

\* validate_win_length raises ValueError.
validate_win_length(v, data) ==
    /\ DOMAIN data # {}
    /\ LET rows == dict_get(data, "rows", 6)
           cols == dict_get(data, "cols", 7)
           max_dimension == IF rows >= cols THEN rows ELSE cols
       IN v > max_dimension

\* The fields of GameConfig(rows, cols, win_length) that fail validation.
\* The validator of win_length runs once the field is in its own range.
validation_errors(c) ==
    {f \in {"rows", "cols", "win_length"} :
        \/ f = "rows" /\ ~field_in_range(c.rows, 4, 10)
        \/ f = "cols" /\ ~field_in_range(c.cols, 4, 10)
        \/ f = "win_length"
              /\ \/ ~field_in_range(c.win_length, 3, 8)
                 \/ validate_win_length(c.win_length, validated_data(c))}

\* GameConfig(rows, cols, win_length) is accepted: no ValidationError.
GameConfig(c) == validation_errors(c) = {}

\* Integers tried beyond each end of the field ranges.
ConfigMargin == 1

\* The (rows, cols, win_length) a caller passes to GameConfig.
ConfigArgs ==
    [rows : (4 - ConfigMargin)..(10 + ConfigMargin),
     cols : (4 - ConfigMargin)..(10 + ConfigMargin),
     win_length : (3 - ConfigMargin)..(8 + ConfigMargin)]

\* The configurations GameConfig accepts.
ValidConfigs == {c \in ConfigArgs : GameConfig(c)}

-----------------------------------------------------------------------------
(* board.py                                                                *)

\* Faulty variant of __init__: rows and columns are exchanged.
EmptyBoardTransposed ==
    [row \in 0..(config.cols - 1) |-> [col \in 0..(config.rows - 1) |-> "EMPTY"]]

EmptyBoard ==
    [row \in 0..(config.rows - 1) |-> [col \in 0..(config.cols - 1) |-> "EMPTY"]]

\* Faulty variant of is_valid_move: the range test takes the first column for
\* out of range.
is_valid_move_off_by_one(b, col) ==
    LET col_idx == col - 1 IN
    IF col_idx <= 0 \/ col_idx >= config.cols
    THEN FALSE
    ELSE b[0][col_idx] = "EMPTY"

is_valid_move(b, col) ==
    LET col_idx == col - 1 IN
    IF col_idx < 0 \/ col_idx >= config.cols
    THEN FALSE
    ELSE b[0][col_idx] = "EMPTY"

\* Faulty variant of the loop of make_move: the rows are searched from the top.
first_empty_row_top_down(b, col_idx, row) ==
    LET empties == {r \in 0..row : b[r][col_idx] = "EMPTY"} IN
    IF empties = {} THEN -1
    ELSE CHOOSE r \in empties : \A other \in empties : r <= other

\* The loop of make_move: the first Empty row of the column, from row downward
\* to row 0 (that is, upward on the board); -1 when the loop ends without one.
RECURSIVE first_empty_row(_, _, _)
first_empty_row(b, col_idx, row) ==
    IF row < 0 THEN -1
    ELSE IF b[row][col_idx] = "EMPTY" THEN row
    ELSE first_empty_row(b, col_idx, row - 1)

\* Faulty variant of make_move: the history records the 1-based column.
make_move_one_based_position(b, h, col, player) ==
    LET col_idx == col - 1 IN
    IF ~is_valid_move(b, col)
    THEN IF col_idx < 0 \/ col_idx >= config.cols
         THEN [board |-> b, move_history |-> h, result |-> "INVALID_COLUMN"]
         ELSE [board |-> b, move_history |-> h, result |-> "COLUMN_FULL"]
    ELSE LET row == first_empty_row(b, col_idx, config.rows - 1) IN
         IF row >= 0
         THEN [board |-> [b EXCEPT ![row][col_idx] = player],
               move_history |->
                   Append(h, [position |-> Position(row, col), player |-> player]),
               result |-> "SUCCESS"]
         ELSE [board |-> b, move_history |-> h, result |-> "COLUMN_FULL"]

\* Faulty variant of make_move: a rejected move is recorded in the history.
make_move_records_rejected(b, h, col, player) ==
    LET col_idx == col - 1
        attempted == Append(h, [position |-> Position(0, col_idx), player |-> player])
    IN
    IF ~is_valid_move(b, col)
    THEN IF col_idx < 0 \/ col_idx >= config.cols
         THEN [board |-> b, move_history |-> attempted, result |-> "INVALID_COLUMN"]
         ELSE [board |-> b, move_history |-> attempted, result |-> "COLUMN_FULL"]
    ELSE LET row == first_empty_row(b, col_idx, config.rows - 1) IN
         IF row >= 0
         THEN [board |-> [b EXCEPT ![row][col_idx] = player],
               move_history |->
                   Append(h, [position |-> Position(row, col_idx), player |-> player]),
               result |-> "SUCCESS"]
         ELSE [board |-> b, move_history |-> attempted, result |-> "COLUMN_FULL"]

make_move(b, h, col, player) ==
    LET col_idx == col - 1 IN
    IF ~is_valid_move(b, col)
    THEN IF col_idx < 0 \/ col_idx >= config.cols
         THEN [board |-> b, move_history |-> h, result |-> "INVALID_COLUMN"]
         ELSE [board |-> b, move_history |-> h, result |-> "COLUMN_FULL"]
    ELSE LET row == first_empty_row(b, col_idx, config.rows - 1) IN
         IF row >= 0
         THEN [board |-> [b EXCEPT ![row][col_idx] = player],
               move_history |->
                   Append(h, [position |-> Position(row, col_idx), player |-> player]),
               result |-> "SUCCESS"]
         ELSE [board |-> b, move_history |-> h, result |-> "COLUMN_FULL"]

is_occupied_position(b, position) ==
    b[position.row][position.col] # "EMPTY"

\* The while loop of _check_line: the cells equal to player from current_pos on,
\* stepping by direction * direction_multiplier until the edge or another mark.
RECURSIVE count_line(_, _, _, _, _)
count_line(b, current_pos, direction, direction_multiplier, player) ==
    IF /\ is_valid(current_pos, config.rows, config.cols)
       /\ b[current_pos.row][current_pos.col] = player
    THEN 1 + count_line(b,
                        move_by_direction(current_pos, direction, direction_multiplier),
                        direction, direction_multiplier, player)
    ELSE 0

\* Faulty variant of _check_line: a run must exceed win_length.
check_line_exceeds(b, start_position, direction) ==
    LET player == b[start_position.row][start_position.col] IN
    IF player = "EMPTY"
    THEN "NONE"
    ELSE LET count ==
                 1 + count_line(b, move_by_direction(start_position, direction, 1),
                                direction, 1, player)
                   + count_line(b, move_by_direction(start_position, direction, -1),
                                direction, -1, player)
         IN IF count > config.win_length THEN player ELSE "NONE"

\* Faulty variant of _check_line: the run is counted in the positive
\* direction only.
check_line_forward_only(b, start_position, direction) ==
    LET player == b[start_position.row][start_position.col] IN
    IF player = "EMPTY"
    THEN "NONE"
    ELSE LET count ==
                 1 + count_line(b, move_by_direction(start_position, direction, 1),
                                direction, 1, player)
         IN IF count >= config.win_length THEN player ELSE "NONE"

check_line(b, start_position, direction) ==
    LET player == b[start_position.row][start_position.col] IN
    IF player = "EMPTY"
    THEN "NONE"
    ELSE LET count ==
                 1 + count_line(b, move_by_direction(start_position, direction, 1),
                                direction, 1, player)
                   + count_line(b, move_by_direction(start_position, direction, -1),
                                direction, -1, player)
         IN IF count >= config.win_length THEN player ELSE "NONE"

\* The loop over Direction from its i-th member on.
RECURSIVE check_directions_from(_, _, _)
check_directions_from(b, position, i) ==
    IF i > Len(Direction) THEN "NONE"
    ELSE LET winner == check_line(b, position, Direction[i]) IN
         IF winner # "NONE" /\ winner # "EMPTY"
         THEN winner
         ELSE check_directions_from(b, position, i + 1)

check_all_directions_from_position(b, position) ==
    check_directions_from(b, position, 1)

\* The inner loop of _find_winner_on_board: the cells of row from column col
\* on.
RECURSIVE scan_row_from(_, _, _)
scan_row_from(b, row, col) ==
    IF col >= config.cols THEN "NONE"
    ELSE LET position == Position(row, col) IN
         IF is_occupied_position(b, position)
         THEN LET winner == check_all_directions_from_position(b, position) IN
              IF winner # "NONE" THEN winner ELSE scan_row_from(b, row, col + 1)
         ELSE scan_row_from(b, row, col + 1)

\* The outer loop of _find_winner_on_board: the rows from row on.
RECURSIVE scan_board_from(_, _)
scan_board_from(b, row) ==
    IF row >= config.rows THEN "NONE"
    ELSE LET winner == scan_row_from(b, row, 0) IN
         IF winner # "NONE" THEN winner ELSE scan_board_from(b, row + 1)

find_winner_on_board(b) == scan_board_from(b, 0)

\* Faulty variant of _player_to_game_state: the two results are exchanged.
player_to_game_state_swapped(player) ==
    IF player = "RED" THEN "YELLOW_WINS"
    ELSE IF player = "YELLOW" THEN "RED_WINS"
    ELSE "PLAYING"

player_to_game_state(player) ==
    IF player = "RED" THEN "RED_WINS"
    ELSE IF player = "YELLOW" THEN "YELLOW_WINS"
    ELSE "PLAYING"

\* Faulty variant of is_full: the bottom row is inspected.
is_full_bottom_row(b) ==
    \A col \in 0..(config.cols - 1) : b[config.rows - 1][col] # "EMPTY"

\* Faulty variant of is_full: the first cell of row 0 is inspected.
is_full_first_cell(b) ==
    b[0][0] # "EMPTY"

is_full(b) ==
    \A col \in 0..(config.cols - 1) : b[0][col] # "EMPTY"

check_winner(b) ==
    LET winner == find_winner_on_board(b) IN
    IF winner # "NONE" THEN player_to_game_state(winner)
    ELSE IF is_full(b) THEN "DRAW"
    ELSE "PLAYING"

\* Faulty variant of get_valid_moves: the 0-based column index is listed.
RECURSIVE valid_moves_zero_based_from(_, _)
valid_moves_zero_based_from(b, col) ==
    IF col >= config.cols THEN << >>
    ELSE IF is_valid_move(b, col + 1)
         THEN <<col>> \o valid_moves_zero_based_from(b, col + 1)
         ELSE valid_moves_zero_based_from(b, col + 1)

\* The list comprehension of get_valid_moves from 0-based column col on.
RECURSIVE valid_moves_from(_, _)
valid_moves_from(b, col) ==
    IF col >= config.cols THEN << >>
    ELSE IF is_valid_move(b, col + 1)
         THEN <<col + 1>> \o valid_moves_from(b, col + 1)
         ELSE valid_moves_from(b, col + 1)

get_valid_moves(b) == valid_moves_from(b, 0)

\* Faulty variant of reset: move_history is not cleared.
reset_keeps_history(b, h) ==
    [board |-> EmptyBoard, move_history |-> h]

reset(b, h) ==
    [board |-> EmptyBoard, move_history |-> << >>]

\* Faulty variant of undo_last_move: the entry is popped, the cell is kept.
undo_last_move_keeps_cell(b, h) ==
    IF h = << >>
    THEN [board |-> b, move_history |-> h, ok |-> FALSE]
    ELSE [board |-> b, move_history |-> SubSeq(h, 1, Len(h) - 1), ok |-> TRUE]

\* Faulty variant of undo_last_move: True is returned on an empty history too.
undo_last_move_always_true(b, h) ==
    IF h = << >>
    THEN [board |-> b, move_history |-> h, ok |-> TRUE]
    ELSE LET position == h[Len(h)].position IN
         [board |-> [b EXCEPT ![position.row][position.col] = "EMPTY"],
          move_history |-> SubSeq(h, 1, Len(h) - 1),
          ok |-> TRUE]

\* Faulty variant of undo_last_move: the oldest entry is popped, pop(0).
undo_last_move_pops_first(b, h) ==
    IF h = << >>
    THEN [board |-> b, move_history |-> h, ok |-> FALSE]
    ELSE LET position == h[1].position IN
         [board |-> [b EXCEPT ![position.row][position.col] = "EMPTY"],
          move_history |-> SubSeq(h, 2, Len(h)),
          ok |-> TRUE]

\* Faulty variant of undo_last_move: the entry is read, h[-1], and not popped.
undo_last_move_keeps_entry(b, h) ==
    IF h = << >>
    THEN [board |-> b, move_history |-> h, ok |-> FALSE]
    ELSE LET position == h[Len(h)].position IN
         [board |-> [b EXCEPT ![position.row][position.col] = "EMPTY"],
          move_history |-> h,
          ok |-> TRUE]

undo_last_move(b, h) ==
    IF h = << >>
    THEN [board |-> b, move_history |-> h, ok |-> FALSE]
    ELSE LET position == h[Len(h)].position IN
         [board |-> [b EXCEPT ![position.row][position.col] = "EMPTY"],
          move_history |-> SubSeq(h, 1, Len(h) - 1),
          ok |-> TRUE]

\* The loop of get_column_height from row on: count += 1 for every row whose
\* cell in the column is not Empty.
RECURSIVE column_count_from(_, _, _)
column_count_from(b, col_idx, row) ==
    IF row >= config.rows
    THEN 0
    ELSE (IF b[row][col_idx] # "EMPTY" THEN 1 ELSE 0)
             + column_count_from(b, col_idx, row + 1)

\* get_column_height with col_idx = col in place of col - 1.
get_column_height_unshifted(b, col) ==
    LET col_idx == col IN
    IF col_idx < 0 \/ col_idx >= config.cols
    THEN 0
    ELSE column_count_from(b, col_idx, 0)

get_column_height(b, col) ==
    LET col_idx == col - 1 IN
    IF col_idx < 0 \/ col_idx >= config.cols
    THEN 0
    ELSE column_count_from(b, col_idx, 0)

-----------------------------------------------------------------------------
(* The record of the most recent GameBoard call.                           *)

Call(op, col, player, result, ok) ==
    [op |-> op, col |-> col, player |-> player, result |-> result, ok |-> ok]

NoCall == Call("none", 0, "EMPTY", "NONE", FALSE)

\* No grid has been returned by get_board_copy yet.  In a returned copy,
\* grid is the list of rows the caller holds and shared tells whether those
\* rows are the very list objects of self.board.
NoCopy == [taken |-> FALSE, grid |-> << >>, shared |-> FALSE]

\* No get_move call is in progress.
NoSearch == [stage |-> "idle"]

\* Column arguments a caller of the board may pass: the range and a margin of
\* out-of-range integers on each side.
ColumnArgs == (1 - ColMargin)..(config.cols + ColMargin)

-----------------------------------------------------------------------------
(* Spec: a GameBoard used directly, as the tests do.                       *)

Init ==
    /\ config \in Configs
    /\ board = EmptyBoard
    /\ move_history = << >>
    /\ call = NoCall
    /\ current_player = "RED"
    /\ game_state = "PLAYING"
    /\ is_single_player = FALSE
    /\ pc = "board"
    /\ board_copy = NoCopy
    /\ search = NoSearch

MakeMove(col, player) ==
    LET r == make_move(board, move_history, col, player) IN
    /\ pc = "board"
    /\ Len(r.move_history) <= MaxMoves
    /\ board' = r.board
    /\ move_history' = r.move_history
    /\ call' = Call("make_move", col, player, r.result, FALSE)
    /\ UNCHANGED <<config, callerVars, engineVars>>

UndoLastMove ==
    LET r == undo_last_move(board, move_history) IN
    /\ pc = "board"
    /\ board' = r.board
    /\ move_history' = r.move_history
    /\ call' = Call("undo_last_move", 0, "EMPTY", "NONE", r.ok)
    /\ UNCHANGED <<config, callerVars, engineVars>>

Reset ==
    LET r == reset(board, move_history) IN
    /\ pc = "board"
    /\ board' = r.board
    /\ move_history' = r.move_history
    /\ call' = Call("reset", 0, "EMPTY", "NONE", FALSE)
    /\ UNCHANGED <<config, callerVars, engineVars>>

CheckWinner ==
    /\ pc \in {"board", "grid", "search"}
    /\ call' = Call("check_winner", 0, "EMPTY", check_winner(board), FALSE)
    /\ UNCHANGED <<boardVars, callerVars, engineVars>>

Next ==
    \/ \E col \in ColumnArgs, player \in Movers : MakeMove(col, player)
    \/ UndoLastMove
    \/ Reset
    \/ CheckWinner

Spec == Init /\ [][Next]_vars

-----------------------------------------------------------------------------
(* SpecConfig: the board GameBoard(config) constructs for every accepted   *)
(* configuration, and check_winner on it.                                  *)

ConfigInit ==
    /\ config \in ValidConfigs
    /\ board = EmptyBoard
    /\ move_history = << >>
    /\ call = NoCall
    /\ current_player = "RED"
    /\ game_state = "PLAYING"
    /\ is_single_player = FALSE
    /\ pc = "grid"
    /\ board_copy = NoCopy
    /\ search = NoSearch

ConfigNext == CheckWinner

SpecConfig == ConfigInit /\ [][ConfigNext]_vars

-----------------------------------------------------------------------------
(* SpecValidate: GameConfig(rows=..., cols=..., win_length=...) called     *)
(* with integers in and around the field ranges, and a GameBoard built     *)
(* from the configuration when the call returns one.  Until the call,      *)
(* config holds the arguments; board is << >> while no GameBoard exists.   *)

ValidateInit ==
    /\ config \in ConfigArgs
    /\ board = << >>
    /\ move_history = << >>
    /\ call = NoCall
    /\ current_player = "RED"
    /\ game_state = "PLAYING"
    /\ is_single_player = FALSE
    /\ pc = "config_args"
    /\ board_copy = NoCopy
    /\ search = NoSearch

\* GameConfig(**config_data): returns the configuration or raises
\* ValidationError, which ends the caller.
ConstructGameConfig ==
    /\ pc = "config_args"
    /\ call' = Call("GameConfig", 0, "EMPTY", "NONE", GameConfig(config))
    /\ pc' = IF GameConfig(config) THEN "config" ELSE "validation_error"
    /\ UNCHANGED <<boardVars, callerVars, current_player, game_state,
                   is_single_player>>

\* GameBoard(config)
ConstructGameBoard ==
    /\ pc = "config"
    /\ board' = EmptyBoard
    /\ move_history' = << >>
    /\ pc' = "grid"
    /\ call' = NoCall
    /\ UNCHANGED <<config, callerVars, current_player, game_state,
                   is_single_player>>

ValidateNext ==
    \/ ConstructGameConfig
    \/ ConstructGameBoard
    \/ CheckWinner

SpecValidate == ValidateInit /\ [][ValidateNext]_vars

-----------------------------------------------------------------------------
(* SpecGrid: check_winner applied to the boards make_move can build.  An   *)
(* initial board is the one make_move builds when the columns are filled   *)
(* one after the other from column 1 on: heights gives each column's       *)
(* number of pieces and marks the player of each move.                     *)

\* The pieces in the columns before column col (1-based).
RECURSIVE PiecesBefore(_, _)
PiecesBefore(heights, col) ==
    IF col <= 1 THEN 0 ELSE heights[col - 1] + PiecesBefore(heights, col - 1)

SumHeights(heights) == PiecesBefore(heights, config.cols + 1)

\* The column (1-based) of the k-th move, searched from column col on.
RECURSIVE ColumnOfMove(_, _, _)
ColumnOfMove(heights, k, col) ==
    IF k <= PiecesBefore(heights, col + 1) THEN col
    ELSE ColumnOfMove(heights, k, col + 1)

GridBoard(heights, marks) ==
    [row \in 0..(config.rows - 1) |->
        [col \in 0..(config.cols - 1) |->
            IF config.rows - row <= heights[col + 1]
            THEN marks[PiecesBefore(heights, col + 1) + (config.rows - row)]
            ELSE "EMPTY"]]

GridHistory(heights, marks) ==
    [k \in 1..SumHeights(heights) |->
        LET col == ColumnOfMove(heights, k, 1) IN
        [position |->
             Position(config.rows - (k - PiecesBefore(heights, col)), col - 1),
         player |-> marks[k]]]

GridHeights ==
    {heights \in [1..config.cols -> 0..config.rows] :
        LET n == SumHeights(heights) IN
        \/ n <= MaxPieces
        \/ n >= config.rows * config.cols - MaxHoles}

GridInit ==
    /\ config \in Configs
    /\ \E heights \in GridHeights :
         \E marks \in [1..SumHeights(heights) -> Movers] :
            /\ board = GridBoard(heights, marks)
            /\ move_history = GridHistory(heights, marks)
    /\ call = NoCall
    /\ current_player = "RED"
    /\ game_state = "PLAYING"
    /\ is_single_player = FALSE
    /\ pc = "grid"
    /\ board_copy = NoCopy
    /\ search = NoSearch

GridNext == CheckWinner

SpecGrid == GridInit /\ [][GridNext]_vars

-----------------------------------------------------------------------------
(* ai_player.py.  random.random() < 0.3 is the boolean explore and         *)
(* random.choice the index choice into valid_moves; both are inputs.       *)

\* AIPlayerFactory.create_ai_player: the AI is always YELLOW.
ai_player == [player |-> "YELLOW", opponent |-> opposite("YELLOW")]

\* Faulty variant of _find_winning_move: the early return leaves the trial
\* piece on the board.
RECURSIVE find_winning_move_no_undo_from(_, _, _, _, _)
find_winning_move_no_undo_from(b, h, player, valid_moves, i) ==
    IF i > Len(valid_moves)
    THEN [move |-> 0, board |-> b, move_history |-> h]
    ELSE Let(make_move(b, h, valid_moves[i], player), LAMBDA made :
         Let(undo_last_move(made.board, made.move_history), LAMBDA undone :
             IF check_winner(made.board) # "PLAYING"
             THEN [move |-> valid_moves[i],
                   board |-> made.board, move_history |-> made.move_history]
             ELSE find_winning_move_no_undo_from(undone.board, undone.move_history,
                                                 player, valid_moves, i + 1)))

\* The loop of _find_winning_move from the i-th valid move on: each move is
\* made, checked and undone on the board itself.  move = 0 stands for None.
RECURSIVE find_winning_move_from(_, _, _, _, _)
find_winning_move_from(b, h, player, valid_moves, i) ==
    IF i > Len(valid_moves)
    THEN [move |-> 0, board |-> b, move_history |-> h]
    ELSE Let(make_move(b, h, valid_moves[i], player), LAMBDA made :
         Let(undo_last_move(made.board, made.move_history), LAMBDA undone :
             IF check_winner(made.board) # "PLAYING"
             THEN [move |-> valid_moves[i],
                   board |-> undone.board, move_history |-> undone.move_history]
             ELSE find_winning_move_from(undone.board, undone.move_history,
                                         player, valid_moves, i + 1)))

find_winning_move(b, h, player) ==
    find_winning_move_from(b, h, player, get_valid_moves(b), 1)

Abs(x) == IF x < 0 THEN -x ELSE x

SeqMax(s) == CHOOSE x \in {s[i] : i \in 1..Len(s)} : \A j \in 1..Len(s) : s[j] <= x
SeqMin(s) == CHOOSE x \in {s[i] : i \in 1..Len(s)} : \A j \in 1..Len(s) : x <= s[j]

\* Faulty variant of _prefer_center_columns: the middle of the range is
\* returned, open or not.
prefer_center_columns_middle(valid_moves) ==
    IF valid_moves = << >> THEN 0
    ELSE (SeqMax(valid_moves) + SeqMin(valid_moves)) \div 2

\* sorted(valid_moves, key=|x - center_col|)[0]: the sort is stable, so the
\* first of the moves with the least key.  0 stands for None.
prefer_center_columns(valid_moves) ==
    IF valid_moves = << >> THEN 0
    ELSE LET center_col == (SeqMax(valid_moves) + SeqMin(valid_moves)) \div 2
             key(x) == Abs(x - center_col)
             first == CHOOSE i \in 1..Len(valid_moves) :
                         /\ \A j \in 1..Len(valid_moves) :
                                key(valid_moves[i]) <= key(valid_moves[j])
                         /\ \A j \in 1..(i - 1) :
                                key(valid_moves[j]) > key(valid_moves[i])
         IN valid_moves[first]

\* Faulty variant of get_move: the block is searched before the win.
get_move_blocks_first(b, h, explore, choice) ==
    Let(get_valid_moves(b), LAMBDA valid_moves :
        IF valid_moves = << >>
        THEN [move |-> 0, board |-> b, move_history |-> h]
        ELSE IF explore
        THEN [move |-> valid_moves[choice], board |-> b, move_history |-> h]
        ELSE Let(find_winning_move(b, h, ai_player.opponent), LAMBDA block :
             IF block.move # 0 THEN block
             ELSE Let(find_winning_move(block.board, block.move_history,
                                        ai_player.player), LAMBDA win :
                  IF win.move # 0 THEN win
                  ELSE [move |-> prefer_center_columns(valid_moves),
                        board |-> win.board,
                        move_history |-> win.move_history])))

\* Faulty variant of get_move: no block is searched.
get_move_never_blocks(b, h, explore, choice) ==
    Let(get_valid_moves(b), LAMBDA valid_moves :
        IF valid_moves = << >>
        THEN [move |-> 0, board |-> b, move_history |-> h]
        ELSE IF explore
        THEN [move |-> valid_moves[choice], board |-> b, move_history |-> h]
        ELSE Let(find_winning_move(b, h, ai_player.player), LAMBDA win :
             IF win.move # 0 THEN win
             ELSE [move |-> prefer_center_columns(valid_moves),
                   board |-> win.board, move_history |-> win.move_history]))

\* Faulty variant of get_move: both searches are made for the opponent.
get_move_searches_opponent_twice(b, h, explore, choice) ==
    Let(get_valid_moves(b), LAMBDA valid_moves :
        IF valid_moves = << >>
        THEN [move |-> 0, board |-> b, move_history |-> h]
        ELSE IF explore
        THEN [move |-> valid_moves[choice], board |-> b, move_history |-> h]
        ELSE Let(find_winning_move(b, h, ai_player.opponent), LAMBDA win :
             IF win.move # 0 THEN win
             ELSE Let(find_winning_move(win.board, win.move_history,
                                        ai_player.opponent), LAMBDA block :
                  IF block.move # 0 THEN block
                  ELSE [move |-> prefer_center_columns(valid_moves),
                        board |-> block.board,
                        move_history |-> block.move_history])))

get_move(b, h, explore, choice) ==
    Let(get_valid_moves(b), LAMBDA valid_moves :
        IF valid_moves = << >>
        THEN [move |-> 0, board |-> b, move_history |-> h]
        ELSE IF explore
        THEN [move |-> valid_moves[choice], board |-> b, move_history |-> h]
        ELSE Let(find_winning_move(b, h, ai_player.player), LAMBDA win :
             IF win.move # 0 THEN win
             ELSE Let(find_winning_move(win.board, win.move_history,
                                        ai_player.opponent), LAMBDA block :
                  IF block.move # 0 THEN block
                  ELSE [move |-> prefer_center_columns(valid_moves),
                        board |-> block.board,
                        move_history |-> block.move_history])))

\* The indexes random.choice can draw from on board b.
Choices(b) == 1..Len(get_valid_moves(b))

-----------------------------------------------------------------------------
(* SpecAi: get_move applied to the boards make_move can build, by each of  *)
(* its branches.                                                           *)

AiInit ==
    /\ config \in Configs
    /\ \E heights \in GridHeights :
         \E marks \in [1..SumHeights(heights) -> Movers] :
            /\ board = GridBoard(heights, marks)
            /\ move_history = GridHistory(heights, marks)
    /\ call = NoCall
    /\ current_player = "RED"
    /\ game_state = "PLAYING"
    /\ is_single_player = TRUE
    /\ pc = "ai"
    /\ board_copy = NoCopy
    /\ search = NoSearch

\* get_move(board).  On a board without valid moves neither random draw is
\* made; choice is read by the exploring branch only.
GetMove(explore, choice) ==
    /\ pc = "ai"
    /\ explore \/ choice = 1
    /\ choice \in Choices(board) \/ (Choices(board) = {} /\ choice = 1)
    /\ \E ai \in {get_move(board, move_history, explore, choice)} :
          /\ board' = ai.board
          /\ move_history' = ai.move_history
          /\ call' = Call("get_move", ai.move, ai_player.player, "NONE", FALSE)
    /\ UNCHANGED <<config, callerVars, engineVars>>

\* _prefer_center_columns(valid_moves) as get_move calls it: on the valid
\* moves of the board, when there are some.
PreferCenterColumns ==
    /\ pc = "ai"
    /\ get_valid_moves(board) # << >>
    /\ call' = Call("prefer_center_columns",
                    prefer_center_columns(get_valid_moves(board)),
                    "EMPTY", "NONE", FALSE)
    /\ UNCHANGED <<boardVars, callerVars, engineVars>>

AiNext ==
    \/ \E explore \in BOOLEAN : \E choice \in 1..config.cols :
          GetMove(explore, choice)
    \/ PreferCenterColumns

SpecAi == AiInit /\ [][AiNext]_vars

-----------------------------------------------------------------------------
(* input_handler.py                                                        *)

\* get_column_input returns only after an integer in [1, max_cols] was typed.
get_column_input(max_cols) == 1..max_cols

-----------------------------------------------------------------------------
(* engine.py.  pc is the position in play(): "setup" before setup_game,    *)
(* "reset" at the top of the outer loop, "turn" at the test of the inner   *)
(* loop, "human_turn" inside the input loop of play_human_turn, "result"   *)
(* at the play-again prompt, "done" after the outer loop.                  *)

\* History length up to which every move of a round is followed.
MaxTurns == 6

\* Beyond MaxTurns placements a round is followed along one line of play
\* only: the columns of a game on the small board that fills it without a
\* line of three, the players moving in turn.
draw_line == <<1, 1, 1, 1, 2, 2, 2, 3, 2, 4, 3, 3, 4, 4, 4, 3>>

OnDrawLine(h) ==
    /\ Len(h) < Len(draw_line)
    /\ \A k \in 1..Len(h) : h[k].position.col + 1 = draw_line[k]

\* col is the lowest column that history h has not filled.
FirstOpen(h, col) ==
    LET pieces(c) == Cardinality({k \in 1..Len(h) : h[k].position.col + 1 = c})
    IN /\ pieces(col) < config.rows
       /\ \A c \in 1..(col - 1) : pieces(c) = config.rows

\* The typed columns of a round the model follows from history h: every
\* column up to MaxTurns placements, then the draw line, and off it the
\* lowest open column, so that every round is followed to its end.
Followed(h, col) ==
    \/ Len(h) < MaxTurns
    \/ OnDrawLine(h) /\ col = draw_line[Len(h) + 1]
    \/ ~OnDrawLine(h) /\ FirstOpen(h, col)

\* The random draws of get_move the model follows: both branches up to
\* MaxTurns placements, then the draw line, and off it the branch that does
\* not explore.
FollowedAi(h, col, explore) ==
    \/ Len(h) < MaxTurns
    \/ OnDrawLine(h) /\ col = draw_line[Len(h) + 1]
    \/ ~OnDrawLine(h) /\ ~explore

\* Faulty variant of the end of play_turn: the round state is not recomputed.
finish_turn_without_check(b, player) ==
    [game_state |-> "PLAYING", current_player |-> opposite(player)]

\* Faulty variant of the end of play_turn: the player is switched in every
\* round state.
finish_turn_always_switches(b, player) ==
    [game_state |-> check_winner(b), current_player |-> opposite(player)]

\* Faulty variant of the end of play_turn: the round ends on a full board
\* only, is_full() in place of check_winner().
finish_turn_ends_on_full_only(b, player) ==
    LET state == IF is_full(b) THEN check_winner(b) ELSE "PLAYING" IN
    [game_state |-> state,
     current_player |-> IF state = "PLAYING" THEN opposite(player) ELSE player]

\* The end of play_turn: the round state is recomputed and the player is
\* switched when the round goes on.
finish_turn(b, player) ==
    LET state == check_winner(b) IN
    [game_state |-> state,
     current_player |-> IF state = "PLAYING" THEN opposite(player) ELSE player]

\* Faulty variant of play_ai_turn: the piece of the other player is placed,
\* make_move(ai_move, self.current_player.opposite()).
play_ai_turn_places_opponent(b, h, player, explore, choice) ==
    Let(get_move(b, h, explore, choice), LAMBDA ai :
        IF ai.move # 0
        THEN Let(make_move(ai.board, ai.move_history, ai.move,
                           opposite(player)), LAMBDA made :
             [board |-> made.board, move_history |-> made.move_history,
              call |-> Call("make_move", ai.move, opposite(player),
                            made.result, FALSE)])
        ELSE [board |-> ai.board, move_history |-> ai.move_history,
              call |-> Call("get_move", 0, player, "NONE", FALSE)])

\* play_ai_turn: the board and history it leaves and the last make_move.
play_ai_turn(b, h, player, explore, choice) ==
    Let(get_move(b, h, explore, choice), LAMBDA ai :
        IF ai.move # 0
        THEN Let(make_move(ai.board, ai.move_history, ai.move, player), LAMBDA made :
             IF made.result = "SUCCESS"
             THEN [board |-> made.board, move_history |-> made.move_history,
                   call |-> Call("make_move", ai.move, player, made.result, FALSE)]
             ELSE Let(get_valid_moves(made.board), LAMBDA valid_moves :
                  IF valid_moves # << >>
                  THEN Let(make_move(made.board, made.move_history,
                                     valid_moves[1], player), LAMBDA fallback :
                       [board |-> fallback.board,
                        move_history |-> fallback.move_history,
                        call |-> Call("make_move", valid_moves[1], player,
                                      fallback.result, FALSE)])
                  ELSE [board |-> made.board, move_history |-> made.move_history,
                        call |-> Call("make_move", ai.move, player,
                                      made.result, FALSE)]))
        ELSE [board |-> ai.board, move_history |-> ai.move_history,
              call |-> Call("get_move", 0, player, "NONE", FALSE)])

EngineInit ==
    /\ config \in Configs
    /\ board = EmptyBoard
    /\ move_history = << >>
    /\ call = NoCall
    /\ current_player = "RED"
    /\ game_state = "PLAYING"
    /\ is_single_player = FALSE
    /\ pc = "setup"
    /\ board_copy = NoCopy
    /\ search = NoSearch

SetupGame(game_mode) ==
    /\ pc = "setup"
    /\ is_single_player' = (game_mode = "one_player")
    /\ pc' = "reset"
    /\ UNCHANGED <<boardVars, callerVars, call, current_player, game_state>>

\* Faulty variant of reset_game: current_player is not set back to RED.
ResetGameKeepsPlayer ==
    LET r == reset(board, move_history) IN
    /\ pc = "reset"
    /\ board' = r.board
    /\ move_history' = r.move_history
    /\ call' = Call("reset", 0, "EMPTY", "NONE", FALSE)
    /\ game_state' = "PLAYING"
    /\ pc' = "turn"
    /\ UNCHANGED <<config, callerVars, is_single_player, current_player>>

ResetGame ==
    LET r == reset(board, move_history) IN
    /\ pc = "reset"
    /\ board' = r.board
    /\ move_history' = r.move_history
    /\ call' = Call("reset", 0, "EMPTY", "NONE", FALSE)
    /\ current_player' = "RED"
    /\ game_state' = "PLAYING"
    /\ pc' = "turn"
    /\ UNCHANGED <<config, callerVars, is_single_player>>

\* play_turn up to the input loop of play_human_turn.
EnterHumanTurn ==
    /\ pc = "turn"
    /\ game_state = "PLAYING"
    /\ ~(is_single_player /\ current_player = "YELLOW")
    /\ pc' = "human_turn"
    /\ UNCHANGED <<boardVars, callerVars, call, current_player, game_state, is_single_player>>

\* Faulty variant of play_human_turn: the input loop is left after every
\* answer of make_move.
PlayHumanTurnLeavesOnAnyResult(col) ==
    LET made == make_move(board, move_history, col, current_player) IN
    /\ pc = "human_turn"
    /\ Followed(move_history, col)
    /\ call' = Call("make_move", col, current_player, made.result, FALSE)
    /\ board' = made.board
    /\ move_history' = made.move_history
    /\ game_state' = check_winner(made.board)
    /\ current_player' = IF check_winner(made.board) = "PLAYING"
                         THEN opposite(current_player)
                         ELSE current_player
    /\ pc' = "turn"
    /\ UNCHANGED <<config, callerVars, is_single_player>>

\* One pass of the loop of play_human_turn and, after SUCCESS, the rest of
\* play_turn.
PlayHumanTurn(col) ==
    LET made == make_move(board, move_history, col, current_player)
        end == finish_turn(made.board, current_player)
    IN /\ pc = "human_turn"
       /\ Followed(move_history, col)
       /\ call' = Call("make_move", col, current_player, made.result, FALSE)
       /\ IF made.result = "SUCCESS"
          THEN /\ board' = made.board
               /\ move_history' = made.move_history
               /\ game_state' = end.game_state
               /\ current_player' = end.current_player
               /\ pc' = "turn"
          ELSE UNCHANGED <<board, move_history, game_state, current_player, pc>>
       /\ UNCHANGED <<config, callerVars, is_single_player>>

\* play_turn when the AI is to move.  choice is read only by the exploring
\* branch of get_move, so the other branch is taken with one value of it.
PlayAiTurn(explore, choice) ==
    /\ pc = "turn"
    /\ game_state = "PLAYING"
    /\ is_single_player /\ current_player = "YELLOW"
    /\ Len(move_history) < MaxTurns \/ OnDrawLine(move_history) \/ ~explore
    /\ choice \in Choices(board) \/ (Choices(board) = {} /\ choice = 1)
    /\ explore \/ choice = 1
    /\ \E played \in {play_ai_turn(board, move_history, current_player,
                                   explore, choice)} :
       \E end \in {finish_turn(played.board, current_player)} :
          /\ FollowedAi(move_history, played.call.col, explore)
          /\ board' = played.board
          /\ move_history' = played.move_history
          /\ call' = played.call
          /\ game_state' = end.game_state
          /\ current_player' = end.current_player
          /\ pc' = "turn"
          /\ UNCHANGED <<config, callerVars, is_single_player>>

\* The inner loop of play ends; display_result.
DisplayResult ==
    /\ pc = "turn"
    /\ game_state # "PLAYING"
    /\ pc' = "result"
    /\ UNCHANGED <<boardVars, callerVars, call, current_player, game_state, is_single_player>>

PlayAgain(again) ==
    /\ pc = "result"
    /\ pc' = IF again THEN "reset" ELSE "done"
    /\ UNCHANGED <<boardVars, callerVars, call, current_player, game_state, is_single_player>>

EngineNext ==
    \/ \E game_mode \in {"two_player", "one_player"} : SetupGame(game_mode)
    \/ ResetGame
    \/ EnterHumanTurn
    \/ \E col \in get_column_input(config.cols) : PlayHumanTurn(col)
    \/ \E explore \in BOOLEAN : \E choice \in 1..config.cols :
          PlayAiTurn(explore, choice)
    \/ DisplayResult
    \/ \E again \in BOOLEAN : PlayAgain(again)

SpecEngine == EngineInit /\ [][EngineNext]_vars

\* play_human_turn can leave its input loop: some column accepts a piece.
HumanCanPlace == pc = "human_turn" /\ get_valid_moves(board) # << >>

\* The pass of the input loop of play_human_turn whose column is accepted.
HumanPlaced == pc = "human_turn" /\ move_history' # move_history

\* play_turn is about to run play_ai_turn.
AiToMove ==
    /\ pc = "turn" /\ game_state = "PLAYING"
    /\ is_single_player /\ current_player = "YELLOW"

AiCanPlace == AiToMove /\ get_valid_moves(board) # << >>

AiPlaced == AiToMove /\ move_history' # move_history

\* The engine with the progress its loops have: play_turn is entered while
\* the round is PLAYING, and a mover who can place a piece eventually does
\* (the human eventually types an accepted column, play_ai_turn runs to its
\* end).  The weak fairness of the two placements is written out with their
\* enabling conditions.
SpecRound ==
    /\ EngineInit /\ [][EngineNext]_vars
    /\ WF_vars(EnterHumanTurn)
    /\ ([]<>~HumanCanPlace \/ []<><<HumanPlaced>>_vars)
    /\ ([]<>~AiCanPlace \/ []<><<AiPlaced>>_vars)

-----------------------------------------------------------------------------
(* SpecSearch: get_move run one statement at a time on the board, with a   *)
(* second reader of the same GameBoard that may call check_winner between  *)
(* any two statements.  search is the frame of the call: stage is the      *)
(* statement reached, player, valid_moves and i are the locals of          *)
(* _find_winning_move, outer_valid_moves the local of get_move; entry      *)
(* keeps the board and history get_move was called with, explore and       *)
(* choice its two random draws.                                            *)

SearchInit ==
    /\ config \in Configs
    /\ \E heights \in {g \in GridHeights : SumHeights(g) <= MaxPieces} :
         \E marks \in [1..SumHeights(heights) -> Movers] :
            /\ board = GridBoard(heights, marks)
            /\ move_history = GridHistory(heights, marks)
    /\ call = NoCall
    /\ current_player = "RED"
    /\ game_state = "PLAYING"
    /\ is_single_player = TRUE
    /\ pc = "search"
    /\ board_copy = NoCopy
    /\ search = NoSearch

SearchFrame(stage, player, valid_moves, i, terminal, move, frame) ==
    [stage |-> stage, player |-> player, valid_moves |-> valid_moves,
     i |-> i, terminal |-> terminal, move |-> move,
     outer_valid_moves |-> frame.outer_valid_moves,
     entry |-> frame.entry, explore |-> frame.explore,
     choice |-> frame.choice]

\* get_move up to the first statement of _find_winning_move(board,
\* self.player), or to its return when there is no valid move or the random
\* draw explores.
SearchBegin(explore, choice) ==
    /\ pc = "search"
    /\ search.stage = "idle"
    /\ explore \/ choice = 1
    /\ choice \in Choices(board) \/ (Choices(board) = {} /\ choice = 1)
    /\ LET valid_moves == get_valid_moves(board)
           frame == [outer_valid_moves |-> valid_moves,
                     entry |-> [board |-> board,
                                move_history |-> move_history],
                     explore |-> explore, choice |-> choice]
       IN search' =
            IF valid_moves = << >>
            THEN SearchFrame("returned", "EMPTY", << >>, 0, FALSE, 0, frame)
            ELSE IF explore
            THEN SearchFrame("returned", "EMPTY", << >>, 0, FALSE,
                             valid_moves[choice], frame)
            ELSE SearchFrame("loop", ai_player.player,
                             get_valid_moves(board), 1, FALSE, 0, frame)
    /\ UNCHANGED <<boardVars, call, engineVars, board_copy>>

\* board.make_move(move, player)
SearchMakeMove ==
    /\ pc = "search"
    /\ search.stage = "loop"
    /\ search.i <= Len(search.valid_moves)
    /\ LET r == make_move(board, move_history,
                          search.valid_moves[search.i], search.player)
       IN /\ board' = r.board
          /\ move_history' = r.move_history
    /\ search' = [search EXCEPT !.stage = "made"]
    /\ UNCHANGED <<config, call, engineVars, board_copy>>

\* if board.check_winner() != GameState.PLAYING
SearchCheckWinner ==
    /\ pc = "search"
    /\ search.stage = "made"
    /\ search' = [search EXCEPT !.stage = "checked",
                                !.terminal = check_winner(board) # "PLAYING"]
    /\ UNCHANGED <<boardVars, call, engineVars, board_copy>>

\* Faulty variant of the undo: the move found is returned without it.
SearchUndoLastMoveSkippedOnReturn ==
    /\ pc = "search"
    /\ search.stage = "checked"
    /\ IF search.terminal
       THEN /\ UNCHANGED <<board, move_history>>
            /\ search' = [search EXCEPT
                             !.stage = "returned",
                             !.move = search.valid_moves[search.i]]
       ELSE LET r == undo_last_move(board, move_history) IN
            /\ board' = r.board
            /\ move_history' = r.move_history
            /\ search' = [search EXCEPT !.stage = "loop", !.i = @ + 1]
    /\ UNCHANGED <<config, call, engineVars, board_copy>>

\* board.undo_last_move() on either branch, then return move (from
\* _find_winning_move and, the move being truthy, from get_move) or the
\* next iteration.
SearchUndoLastMove ==
    /\ pc = "search"
    /\ search.stage = "checked"
    /\ LET r == undo_last_move(board, move_history) IN
       /\ board' = r.board
       /\ move_history' = r.move_history
    /\ search' = IF search.terminal
                 THEN [search EXCEPT !.stage = "returned",
                                     !.move = search.valid_moves[search.i]]
                 ELSE [search EXCEPT !.stage = "loop", !.i = @ + 1]
    /\ UNCHANGED <<config, call, engineVars, board_copy>>

\* return None from _find_winning_move: get_move goes on with the search
\* for self.opponent, or returns _prefer_center_columns(valid_moves).
SearchReturnNone ==
    /\ pc = "search"
    /\ search.stage = "loop"
    /\ search.i > Len(search.valid_moves)
    /\ search' =
         IF search.player = ai_player.player
         THEN [search EXCEPT !.player = ai_player.opponent,
                             !.valid_moves = get_valid_moves(board),
                             !.i = 1]
         ELSE [search EXCEPT
                  !.stage = "returned",
                  !.move = prefer_center_columns(search.outer_valid_moves)]
    /\ UNCHANGED <<boardVars, call, engineVars, board_copy>>

SearchNext ==
    \/ \E explore \in BOOLEAN : \E choice \in 1..config.cols :
          SearchBegin(explore, choice)
    \/ SearchMakeMove
    \/ SearchCheckWinner
    \/ SearchUndoLastMove
    \/ SearchReturnNone
    \/ CheckWinner

SpecSearch == SearchInit /\ [][SearchNext]_vars

-----------------------------------------------------------------------------
(* SpecCopy: a caller that keeps the grid get_board_copy returned, writes  *)
(* to it, and goes on using the board.  A Python list is an object: a row  *)
(* held by two grids shows a write made through either of them, so the     *)
(* copy records whether its rows are the board's own row objects.          *)

\* History length up to which SpecCopy places pieces.
MaxCopyMoves == 1

\* The cells of a returned copy the caller overwrites: the top left one, as
\* test_get_board_copy does, and the bottom left one.
CopyCells == {<<0, 0>>, <<config.rows - 1, 0>>}

\* list(self.board): a new outer list holding the board's own rows.
get_board_copy_outer_list_only(b) ==
    [taken |-> TRUE, grid |-> b, shared |-> TRUE]

\* [row[:] for row in self.board]: a new outer list of new row lists, each
\* holding the cells of the board's row.
get_board_copy(b) ==
    [taken |-> TRUE,
     grid |-> [row \in DOMAIN b |-> [col \in DOMAIN b[row] |-> b[row][col]]],
     shared |-> FALSE]

\* The copy after self.board[row][col] = ... made the board's grid b: the
\* write is made in a row object, and is seen in a copy holding that row.
after_cell_write(bc, b) ==
    IF bc.taken /\ bc.shared THEN [bc EXCEPT !.grid = b] ELSE bc

\* The copy after self.board = [[...]]: the board has new rows, the copy
\* keeps the rows it holds.
after_rebinding(bc) ==
    IF bc.taken THEN [bc EXCEPT !.shared = FALSE] ELSE bc

CopyInit ==
    /\ config \in Configs
    /\ board = EmptyBoard
    /\ move_history = << >>
    /\ call = NoCall
    /\ current_player = "RED"
    /\ game_state = "PLAYING"
    /\ is_single_player = FALSE
    /\ pc = "copy"
    /\ board_copy = NoCopy
    /\ search = NoSearch

GetBoardCopy ==
    /\ pc = "copy"
    /\ board_copy' = get_board_copy(board)
    /\ call' = Call("get_board_copy", 0, "EMPTY", "NONE", FALSE)
    /\ UNCHANGED <<boardVars, engineVars, search>>

\* board_copy[row][col] = player, as in test_get_board_copy.
SetCopyCell(row, col, player) ==
    /\ pc = "copy"
    /\ board_copy.taken
    /\ board_copy' = [board_copy EXCEPT !.grid[row][col] = player]
    /\ board' = IF board_copy.shared
                THEN [board EXCEPT ![row][col] = player]
                ELSE board
    /\ call' = Call("set_copy_cell", 0, "EMPTY", "NONE", FALSE)
    /\ UNCHANGED <<config, move_history, engineVars, search>>

CopyMakeMove(col, player) ==
    LET r == make_move(board, move_history, col, player) IN
    /\ pc = "copy"
    /\ Len(r.move_history) <= MaxCopyMoves
    /\ board' = r.board
    /\ move_history' = r.move_history
    /\ board_copy' = after_cell_write(board_copy, r.board)
    /\ call' = Call("make_move", 0, "EMPTY", "NONE", FALSE)
    /\ UNCHANGED <<config, engineVars, search>>

CopyUndoLastMove ==
    LET r == undo_last_move(board, move_history) IN
    /\ pc = "copy"
    /\ board' = r.board
    /\ move_history' = r.move_history
    /\ board_copy' = after_cell_write(board_copy, r.board)
    /\ call' = Call("undo_last_move", 0, "EMPTY", "NONE", FALSE)
    /\ UNCHANGED <<config, engineVars, search>>

CopyReset ==
    LET r == reset(board, move_history) IN
    /\ pc = "copy"
    /\ board' = r.board
    /\ move_history' = r.move_history
    /\ board_copy' = after_rebinding(board_copy)
    /\ call' = Call("reset", 0, "EMPTY", "NONE", FALSE)
    /\ UNCHANGED <<config, engineVars, search>>

CopyNext ==
    \/ GetBoardCopy
    \/ \E cell \in CopyCells, player \in Player :
          SetCopyCell(cell[1], cell[2], player)
    \/ \E col \in get_column_input(config.cols), player \in Movers :
          CopyMakeMove(col, player)
    \/ CopyUndoLastMove
    \/ CopyReset

SpecCopy == CopyInit /\ [][CopyNext]_vars

-----------------------------------------------------------------------------
(* Reference notions the claims are stated in.  They are written from the  *)
(* rules of the game, not from the code above.                              *)

RowIdx == 0..(config.rows - 1)
ColIdx == 0..(config.cols - 1)

\* (d_row, d_col) of the four line orientations: horizontal, vertical,
\* down-right diagonal, down-left diagonal.
LineDeltas == {<<0, 1>>, <<1, 0>>, <<1, 1>>, <<1, -1>>}

\* p owns n consecutive cells from (row, col) on along delta.
OwnsRunAt(b, p, row, col, delta, n) ==
    \A i \in 0..(n - 1) :
        /\ row + i * delta[1] \in RowIdx
        /\ col + i * delta[2] \in ColIdx
        /\ b[row + i * delta[1]][col + i * delta[2]] = p

OwnsLineAlong(b, p, delta) ==
    \E row \in RowIdx, col \in ColIdx :
        OwnsRunAt(b, p, row, col, delta, config.win_length)

\* p owns at least win_length consecutive cells along some line.
OwnsLine(b, p) == \E delta \in LineDeltas : OwnsLineAlong(b, p, delta)

BoardFull(b) == \A row \in RowIdx, col \in ColIdx : b[row][col] # "EMPTY"

ColumnFull(b, col_idx) == \A row \in RowIdx : b[row][col_idx] # "EMPTY"

\* The bottom-most Empty row of a column that is not full.
LowestEmptyRow(b, col_idx) ==
    CHOOSE row \in RowIdx :
        /\ b[row][col_idx] = "EMPTY"
        /\ \A below \in RowIdx : below > row => b[below][col_idx] # "EMPTY"

ChangedCells(b1, b2) ==
    {<<row, col>> \in RowIdx \X ColIdx : b1[row][col] # b2[row][col]}

\* p owns win_length consecutive cells, the cell (row, col) among them,
\* along one of the four lines through that cell.
OwnsLineThrough(b, p, row, col) ==
    \E delta \in LineDeltas : \E k \in 0..(config.win_length - 1) :
        OwnsRunAt(b, p, row - k * delta[1], col - k * delta[2], delta,
                  config.win_length)

\* Board b with a piece of p dropped into the open column col (1-based).
Dropped(b, p, col) ==
    [b EXCEPT ![LowestEmptyRow(b, col - 1)][col - 1] = p]

\* The columns (1-based) where a piece of p completes a line of p.
WinningColumns(b, p) ==
    {col \in 1..config.cols :
        ~ColumnFull(b, col - 1) /\ OwnsLine(Dropped(b, p, col), p)}

\* The columns (1-based) that are not full.
OpenColumns(b) == {col \in 1..config.cols : ~ColumnFull(b, col - 1)}

SetMin(S) == CHOOSE x \in S : \A y \in S : x <= y
SetMax(S) == CHOOSE x \in S : \A y \in S : y <= x

\* Twice the distance of column c from the midpoint of the range of V.
MidpointDistance(V, c) == Abs(2 * c - (SetMin(V) + SetMax(V)))

\* A round is being played on the board.
RoundPlaying == game_state = "PLAYING" /\ pc \in {"turn", "human_turn"}

\* The round states the rules allow for board b.
RoundStates(b) ==
    IF OwnsLine(b, "RED") \/ OwnsLine(b, "YELLOW")
    THEN {s \in {"RED_WINS", "YELLOW_WINS"} :
             \/ s = "RED_WINS" /\ OwnsLine(b, "RED")
             \/ s = "YELLOW_WINS" /\ OwnsLine(b, "YELLOW")}
    ELSE IF BoardFull(b) THEN {"DRAW"}
    ELSE {"PLAYING"}

-----------------------------------------------------------------------------
(* Claims                                                                  *)

\* C1: in every state reachable by make_move, undo_last_move and reset, no
\* Empty cell lies below an occupied cell of the same column.
C1_Gravity ==
    \A col \in ColIdx : \A row \in RowIdx :
        (row + 1 \in RowIdx /\ board[row][col] # "EMPTY")
            => board[row + 1][col] # "EMPTY"

\* A column holds two pieces again after a piece above them was undone.
C1_Witness ==
    /\ call.op = "undo_last_move" /\ call.ok
    /\ \E col \in ColIdx :
          /\ board[config.rows - 1][col] # "EMPTY"
          /\ board[config.rows - 2][col] # "EMPTY"
          /\ board[config.rows - 3][col] = "EMPTY"

\* C2: check_winner reports a win for p only if p owns win_length
\* consecutive cells along one of the four lines, and reports a win whenever
\* some player owns such a line.
C2_WinDetection ==
    call.op = "check_winner" =>
        /\ call.result = "RED_WINS" => OwnsLine(board, "RED")
        /\ call.result = "YELLOW_WINS" => OwnsLine(board, "YELLOW")
        /\ (OwnsLine(board, "RED") \/ OwnsLine(board, "YELLOW"))
               => call.result \in {"RED_WINS", "YELLOW_WINS"}

\* YELLOW wins by a down-left diagonal of exactly win_length cells and by
\* nothing else.
C2_Witness ==
    /\ call.op = "check_winner"
    /\ call.result = "YELLOW_WINS"
    /\ OwnsLineAlong(board, "YELLOW", <<1, -1>>)
    /\ \A delta \in LineDeltas \ {<<1, -1>>} : ~OwnsLineAlong(board, "YELLOW", delta)
    /\ \A row \in RowIdx, col \in ColIdx :
          ~OwnsRunAt(board, "YELLOW", row, col, <<1, -1>>, config.win_length + 1)
    /\ ~OwnsLine(board, "RED")

\* C3: check_winner returns a win if a winning line exists (also on a full
\* board), otherwise DRAW exactly when the board is full, otherwise PLAYING.
C3_RoundState ==
    call.op = "check_winner" =>
        IF OwnsLine(board, "RED") \/ OwnsLine(board, "YELLOW")
        THEN call.result \in {"RED_WINS", "YELLOW_WINS"}
        ELSE IF BoardFull(board) THEN call.result = "DRAW"
        ELSE call.result = "PLAYING"

\* A full board without a winning line was reported as DRAW.
C3_Witness ==
    /\ call.op = "check_winner"
    /\ call.result = "DRAW"
    /\ BoardFull(board)
    /\ ~OwnsLine(board, "RED") /\ ~OwnsLine(board, "YELLOW")

\* C4: make_move returns INVALID_COLUMN exactly when the column is outside
\* [1, cols], COLUMN_FULL exactly when it is in range and the column has no
\* Empty cell, and SUCCESS otherwise.
C4_Outcome ==
    [][call'.op = "make_move" =>
          call'.result =
              IF call'.col < 1 \/ call'.col > config.cols THEN "INVALID_COLUMN"
              ELSE IF ColumnFull(board, call'.col - 1) THEN "COLUMN_FULL"
              ELSE "SUCCESS"]_vars

\* A move into a full column was answered COLUMN_FULL.
C4_Witness ==
    /\ call.op = "make_move"
    /\ call.result = "COLUMN_FULL"
    /\ ColumnFull(board, call.col - 1)

\* C5: a make_move that returns SUCCESS changes exactly one cell, the lowest
\* Empty cell of its column, to the player's mark and appends exactly that
\* position and player to move_history.
C5_SuccessEffect ==
    [][(call'.op = "make_move" /\ call'.result = "SUCCESS") =>
          LET col_idx == call'.col - 1
              row == LowestEmptyRow(board, col_idx)
          IN /\ ChangedCells(board, board') = {<<row, col_idx>>}
             /\ board'[row][col_idx] = call'.player
             /\ Len(move_history') = Len(move_history) + 1
             /\ SubSeq(move_history', 1, Len(move_history)) = move_history
             /\ move_history'[Len(move_history')] =
                    [position |-> [row |-> row, col |-> col_idx],
                     player |-> call'.player]]_vars

\* A piece was placed on top of another one, after earlier moves.
C5_Witness ==
    /\ call.op = "make_move"
    /\ call.result = "SUCCESS"
    /\ Len(move_history) >= 3
    /\ board[config.rows - 2][call.col - 1] = call.player
    /\ board[config.rows - 3][call.col - 1] = "EMPTY"

\* C6: a make_move that returns INVALID_COLUMN or COLUMN_FULL leaves the grid
\* and move_history as they were.
C6_FailureFrame ==
    [][(call'.op = "make_move"
           /\ call'.result \in {"INVALID_COLUMN", "COLUMN_FULL"}) =>
          (board' = board /\ move_history' = move_history)]_vars

\* An out-of-range column was rejected on a board that holds pieces.
C6_Witness ==
    /\ call.op = "make_move"
    /\ call.result = "INVALID_COLUMN"
    /\ move_history # << >>

\* C7: from every reachable state, a make_move that returns SUCCESS followed
\* at once by undo_last_move gives back the grid and move_history of before
\* the placement, and undo_last_move returns True.
C7_UndoInverse ==
    \A col \in ColumnArgs, player \in Movers :
        LET made == make_move(board, move_history, col, player) IN
        made.result = "SUCCESS" =>
            undo_last_move(made.board, made.move_history) =
                [board |-> board, move_history |-> move_history, ok |-> TRUE]

\* An undo took a placed piece back and left other pieces on the board.
C7_Witness ==
    /\ call.op = "undo_last_move"
    /\ call.ok
    /\ Len(move_history) >= 2

\* C8: undo_last_move on an empty history returns False and changes nothing;
\* on a non-empty history it returns True.
C8_UndoEmpty ==
    [][call'.op = "undo_last_move" =>
          IF move_history = << >>
          THEN ~call'.ok /\ board' = board /\ move_history' = move_history
          ELSE call'.ok]_vars

\* undo_last_move was called with nothing to undo.
C8_Witness ==
    /\ call.op = "undo_last_move"
    /\ ~call.ok
    /\ move_history = << >>

\* C9: a round starts PLAYING with RED to move; after a placement the round
\* state is recomputed and the active player flips exactly when it is
\* PLAYING; in RED_WINS, YELLOW_WINS or DRAW nothing more is placed until the
\* next round is reset.
C9_TurnMachine ==
    [][/\ pc = "reset" =>
            /\ game_state' = "PLAYING" /\ current_player' = "RED"
            /\ board' = EmptyBoard /\ move_history' = << >>
       /\ move_history' # move_history /\ pc # "reset" =>
            /\ Len(move_history') = Len(move_history) + 1
            /\ game_state = "PLAYING"
            /\ game_state' \in RoundStates(board')
            /\ current_player' = IF game_state' = "PLAYING"
                                 THEN opposite(current_player)
                                 ELSE current_player
       /\ game_state # "PLAYING" /\ pc # "reset" =>
            /\ board' = board /\ move_history' = move_history
            /\ game_state' = game_state /\ current_player' = current_player
      ]_vars

\* A round halted with YELLOW's win: YELLOW, who moved last, is still active.
C9_Witness ==
    /\ pc = "result"
    /\ game_state = "YELLOW_WINS"
    /\ current_player = "YELLOW"
    /\ OwnsLine(board, "YELLOW")

\* C10: in a human turn a make_move answered INVALID_COLUMN or COLUMN_FULL
\* changes neither the active player, the round state, the grid nor the
\* history, and the same player is asked again; the turn ends only with a
\* SUCCESS.
C10_RejectedMove ==
    [][/\ (pc = "human_turn" /\ call'.op = "make_move"
              /\ call'.result \in {"INVALID_COLUMN", "COLUMN_FULL"}) =>
            /\ current_player' = current_player /\ game_state' = game_state
            /\ board' = board /\ move_history' = move_history
            /\ pc' = "human_turn"
       /\ (pc = "human_turn" /\ pc' # "human_turn") =>
            /\ call'.op = "make_move" /\ call'.result = "SUCCESS"
            /\ call'.player = current_player
            /\ Len(move_history') = Len(move_history) + 1
      ]_vars

\* A human chose a full column and is still in the input loop.
C10_Witness ==
    /\ pc = "human_turn"
    /\ call.op = "make_move"
    /\ call.result = "COLUMN_FULL"
    /\ call.player = current_player

\* C11: if every mover eventually supplies an accepted column, every round
\* that is being played eventually reaches RED_WINS, YELLOW_WINS or DRAW, and
\* the history never holds more than rows * cols placements.
C11_RoundTermination ==
    /\ [](Len(move_history) <= config.rows * config.cols)
    /\ [](game_state = "PLAYING" /\ pc \in {"turn", "human_turn"}
             => <>(game_state # "PLAYING"))

\* A round ended only with the last cell of the board: rows * cols
\* placements were made.
C11_Witness ==
    /\ game_state = "DRAW"
    /\ Len(move_history) = config.rows * config.cols
    /\ call.op = "make_move" /\ call.result = "SUCCESS"

\* C12: after a make_move that returns SUCCESS on a board without a winning
\* line, the full-board scan finds a winner exactly when a line through the
\* placed cell holds win_length consecutive cells of the mover, and then the
\* scan and the check of the four directions from the placed cell both
\* report the mover.
C12_ScanEquivalence ==
    [][(/\ call'.op = "make_move" /\ call'.result = "SUCCESS"
        /\ ~OwnsLine(board, "RED") /\ ~OwnsLine(board, "YELLOW")) =>
          LET last == move_history'[Len(move_history')].position
              through == OwnsLineThrough(board', call'.player, last.row, last.col)
              winner == IF through THEN call'.player ELSE "NONE"
          IN /\ find_winner_on_board(board') = winner
             /\ check_all_directions_from_position(board', last) = winner]_vars

\* A piece placed between two pieces of its player completed a horizontal
\* line, of which it is not the first cell.
C12_Witness ==
    /\ call.op = "make_move" /\ call.result = "SUCCESS"
    /\ Len(move_history) = config.win_length
    /\ LET last == move_history[Len(move_history)].position IN
          /\ last.col - 1 \in ColIdx /\ last.col + 1 \in ColIdx
          /\ board[last.row][last.col - 1] = call.player
          /\ board[last.row][last.col + 1] = call.player
    /\ find_winner_on_board(board) = call.player

\* C13: on every board of a round that is PLAYING, if some open column
\* completes a line for the heuristic's own player, get_move without
\* exploration returns a column that does.
C13_TakesWin ==
    (RoundPlaying /\ WinningColumns(board, ai_player.player) # {}) =>
        get_move(board, move_history, FALSE, 1).move
            \in WinningColumns(board, ai_player.player)

\* The AI is to move and can win although its adversary threatens to win in
\* another column.
C13_Witness ==
    /\ AiToMove
    /\ WinningColumns(board, ai_player.player) # {}
    /\ WinningColumns(board, ai_player.opponent)
           \ WinningColumns(board, ai_player.player) # {}

\* C14: on every board of a round that is PLAYING, if no open column wins
\* for the heuristic's own player and exactly one open column would complete
\* a line for its adversary, get_move without exploration returns that
\* column.
C14_BlocksLoss ==
    (/\ RoundPlaying
     /\ WinningColumns(board, ai_player.player) = {}
     /\ Cardinality(WinningColumns(board, ai_player.opponent)) = 1) =>
        {get_move(board, move_history, FALSE, 1).move}
            = WinningColumns(board, ai_player.opponent)

\* The AI is to move, cannot win, and the one column that blocks its
\* adversary is not the column the centre preference would pick.
C14_Witness ==
    /\ AiToMove
    /\ WinningColumns(board, ai_player.player) = {}
    /\ Cardinality(WinningColumns(board, ai_player.opponent)) = 1
    /\ prefer_center_columns(get_valid_moves(board))
           \notin WinningColumns(board, ai_player.opponent)

\* C15: by every branch, get_move returns None exactly when get_valid_moves
\* is empty, and otherwise a member of get_valid_moves.
C15_ResultDomain ==
    [][call'.op = "get_move" =>
          LET valid_moves == get_valid_moves(board) IN
          /\ (call'.col = 0) <=> (valid_moves = << >>)
          /\ call'.col # 0 =>
                \E i \in 1..Len(valid_moves) : valid_moves[i] = call'.col]_vars

\* get_move returned None on a full board.
C15_Witness ==
    /\ pc = "ai"
    /\ call.op = "get_move" /\ call.col = 0
    /\ BoardFull(board)

\* C16: by every branch, get_move leaves the grid and move_history as they
\* were before the call.
C16_LookaheadFrame ==
    [][call'.op = "get_move" =>
          (board' = board /\ move_history' = move_history)]_vars

\* get_move returned a column that wins for the AI, found before the last
\* valid column was tried.
C16_Witness ==
    /\ pc = "ai"
    /\ call.op = "get_move"
    /\ call.col \in WinningColumns(board, ai_player.player)
    /\ \E col \in (call.col + 1)..config.cols : ~ColumnFull(board, col - 1)

\* C17: _prefer_center_columns returns the valid column nearest to the
\* midpoint (min + max) / 2 of the valid columns, and of the columns at
\* equal distance the lowest.
C17_CenterPreference ==
    call.op = "prefer_center_columns" =>
        LET V == OpenColumns(board) IN
        /\ call.col \in V
        /\ \A c \in V :
              \/ MidpointDistance(V, call.col) < MidpointDistance(V, c)
              \/ MidpointDistance(V, call.col) = MidpointDistance(V, c)
                    /\ call.col <= c

\* C18: in every reachable board state get_valid_moves lists, strictly
\* ascending, exactly the columns of [1, cols] in which make_move would
\* return SUCCESS; on an empty board it is 1..cols.
C18_ValidMoves ==
    LET valid_moves == get_valid_moves(board) IN
    /\ \A i \in 1..(Len(valid_moves) - 1) : valid_moves[i] < valid_moves[i + 1]
    /\ \A player \in Movers :
          {valid_moves[i] : i \in 1..Len(valid_moves)}
              = {col \in 1..config.cols :
                    make_move(board, move_history, col, player).result = "SUCCESS"}
    /\ {valid_moves[i] : i \in 1..Len(valid_moves)} = OpenColumns(board)
    /\ move_history = << >> => valid_moves = [i \in 1..config.cols |-> i]

\* A column between two others is full and is left out of the list.
C18_Witness ==
    /\ pc = "board"
    /\ ColumnFull(board, 1)
    /\ Len(get_valid_moves(board)) = config.cols - 1
    /\ get_valid_moves(board)[2] = 3

\* C19: for every accepted configuration the constructed board is a grid of
\* rows x cols Empty cells with an empty move_history, and check_winner on
\* it returns PLAYING.
C19_InitialState ==
    /\ DOMAIN board = 0..(config.rows - 1)
    /\ \A row \in DOMAIN board :
          /\ DOMAIN board[row] = 0..(config.cols - 1)
          /\ \A col \in DOMAIN board[row] : board[row][col] = "EMPTY"
    /\ move_history = << >>
    /\ call.op = "check_winner" => call.result = "PLAYING"

\* check_winner was called on the fresh board of the widest and lowest
\* configuration, with the longest line it admits.
C19_Witness ==
    /\ config = [rows |-> 4, cols |-> 10, win_length |-> 8]
    /\ call.op = "check_winner" /\ call.result = "PLAYING"
    /\ move_history = << >>

\* C20: reset makes every cell Empty and the history empty and leaves the
\* configuration as it is; reset_game also makes RED the active player and
\* the round state PLAYING, however the round before ended.
C20_Reset ==
    [][(call'.op = "reset" /\ pc \in {"reset", "board"}) =>
          /\ DOMAIN board' = RowIdx
          /\ \A row \in RowIdx :
                /\ DOMAIN board'[row] = ColIdx
                /\ \A col \in ColIdx : board'[row][col] = "EMPTY"
          /\ move_history' = << >>
          /\ config' = config
          /\ pc = "reset" =>
                (current_player' = "RED" /\ game_state' = "PLAYING")]_vars

\* reset_game has run in a single-player game: the board is empty and RED is
\* to move in a round that is PLAYING.
C20_Witness ==
    /\ pc = "turn"
    /\ call.op = "reset"
    /\ is_single_player
    /\ board = EmptyBoard /\ move_history = << >>
    /\ current_player = "RED" /\ game_state = "PLAYING"

-----------------------------------------------------------------------------
\* C21: the grid get_board_copy returns equals the board's grid at the time
\* of the call; writing a cell of the returned copy leaves the board as it
\* was; and make_move, undo_last_move and reset on the board leave a copy
\* returned earlier as it was.
C21_CopySemantics ==
    [][/\ call'.op = "get_board_copy" =>
              /\ board_copy'.taken
              /\ board_copy'.grid = board
              /\ board' = board
       /\ call'.op = "set_copy_cell" => board' = board
       /\ call'.op \in {"make_move", "undo_last_move", "reset"} =>
              board_copy'.grid = board_copy.grid]_vars

\* A copy was taken of a board holding a piece, a cell of the copy was
\* overwritten, and the board was changed afterwards by undo_last_move: the
\* copy still shows the piece the board no longer has.
C21_Witness ==
    /\ pc = "copy"
    /\ board_copy.taken
    /\ call.op = "undo_last_move"
    /\ \E row \in RowIdx, col \in ColIdx :
          /\ board_copy.grid[row][col] # "EMPTY"
          /\ board[row][col] = "EMPTY"
          /\ \E r2 \in RowIdx, c2 \in ColIdx :
                /\ <<r2, c2>> # <<row, col>>
                /\ board_copy.grid[r2][c2] # board[r2][c2]

\* C22: in every reachable board state get_column_height(c) is, for c in
\* [1, cols], the number of occupied cells of column c, which is the number
\* of move_history entries placed in that column, and is 0 for every c
\* outside [1, cols].
C22_ColumnHeight ==
    pc = "board" =>
        /\ \A col \in ColumnArgs :
              get_column_height(board, col)
                  = IF col \in 1..config.cols
                    THEN Cardinality({row \in RowIdx :
                                         board[row][col - 1] # "EMPTY"})
                    ELSE 0
        /\ \A col \in 1..config.cols :
              get_column_height(board, col)
                  = Cardinality({i \in 1..Len(move_history) :
                                    move_history[i].position.col = col - 1})

\* After an undo the columns hold two, one and no pieces.
C22_Witness ==
    /\ pc = "board"
    /\ call.op = "undo_last_move"
    /\ call.ok
    /\ get_column_height(board, 1) = 2
    /\ get_column_height(board, 2) = 1
    /\ get_column_height(board, config.cols) = 0
    /\ get_column_height(board, config.cols + 1) = 0

\* The configurations the claim accepts: every field in its range and
\* win_length no greater than the larger dimension.
AcceptableConfig(c) ==
    /\ c.rows \in 4..10
    /\ c.cols \in 4..10
    /\ c.win_length \in 3..8
    /\ c.win_length <= SetMax({c.rows, c.cols})

\* C23: constructing a GameConfig is rejected when rows is outside 4..10,
\* cols is outside 4..10, win_length is outside 3..8 or win_length is
\* greater than max(rows, cols), and accepted for every other combination;
\* a board exists only for an accepted configuration.
C23_ConfigValidation ==
    /\ call.op = "GameConfig" => (call.ok <=> AcceptableConfig(config))
    /\ pc = "validation_error" => ~AcceptableConfig(config)
    /\ board # << >> => AcceptableConfig(config)
    /\ ~AcceptableConfig(config) => board = << >>

\* Every field is in its range and win_length exceeds both dimensions: the
\* construction was rejected and no board exists.
C23_Witness ==
    /\ pc = "validation_error"
    /\ call.op = "GameConfig"
    /\ ~call.ok
    /\ config.rows \in 4..10
    /\ config.cols \in 4..10
    /\ config.win_length \in 3..8
    /\ config.win_length > config.rows
    /\ config.win_length > config.cols
    /\ board = << >>

\* C24: when get_move does not explore and the board, on which nobody has
\* a line yet, offers both a column that wins for the heuristic's own player
\* and a column in which its adversary would win, get_move returns a winning
\* column and not a column that only blocks.
C24_WinBeforeBlock ==
    (/\ pc = "ai"
     /\ ~OwnsLine(board, ai_player.player)
     /\ ~OwnsLine(board, ai_player.opponent)
     /\ WinningColumns(board, ai_player.player) # {}
     /\ WinningColumns(board, ai_player.opponent) # {}) =>
        LET move == get_move(board, move_history, FALSE, 1).move IN
        /\ move \in WinningColumns(board, ai_player.player)
        /\ move \notin WinningColumns(board, ai_player.opponent)
                           \ WinningColumns(board, ai_player.player)

\* get_move returned a winning column although a column further left would
\* have blocked the adversary's line.
C24_Witness ==
    /\ pc = "ai"
    /\ call.op = "get_move"
    /\ ~OwnsLine(board, ai_player.player)
    /\ ~OwnsLine(board, ai_player.opponent)
    /\ call.col \in WinningColumns(board, ai_player.player)
    /\ \E col \in WinningColumns(board, ai_player.opponent) :
          /\ col \notin WinningColumns(board, ai_player.player)
          /\ col < call.col

\* C25: on every board of a round that is PLAYING and for either player p,
\* _find_winning_move(board, p) returns a column only if dropping p's mark
\* in it completes a line for p, and returns None when no column does, also
\* when the drop fills the last empty cell of the board without a line.
C25_OnlyWinningColumns ==
    RoundPlaying =>
        \A p \in Movers :
            LET move == find_winning_move(board, move_history, p).move IN
            /\ move # 0 => move \in WinningColumns(board, p)
            /\ WinningColumns(board, p) = {} => move = 0

\* C26: in every state reachable by make_move, undo_last_move and reset,
\* the last entry of move_history is the topmost occupied cell of its
\* column, so the one cell undo_last_move clears has no occupied cell above.
C26_UndoTopPiece ==
    (pc = "board" /\ move_history # << >>) =>
        LET position == move_history[Len(move_history)].position
            undone == undo_last_move(board, move_history)
        IN /\ board[position.row][position.col] # "EMPTY"
           /\ \A above \in RowIdx :
                 above < position.row => board[above][position.col] = "EMPTY"
           /\ \A cell \in ChangedCells(board, undone.board) :
                 \A above \in RowIdx :
                    above < cell[1] => board[above][cell[2]] = "EMPTY"

\* An undo left a history whose last entry lies on top of another piece,
\* beside a column that holds a piece too.
C26_Witness ==
    /\ pc = "board"
    /\ call.op = "undo_last_move"
    /\ call.ok
    /\ Len(move_history) = 3
    /\ LET position == move_history[Len(move_history)].position IN
       /\ position.row < config.rows - 1
       /\ \E col \in ColIdx :
             col # position.col /\ board[config.rows - 1][col] # "EMPTY"

\* C28: in every reachable board state the positions in move_history are
\* pairwise distinct, each of them holds the mark of the recorded player,
\* and every occupied cell is in move_history, so that the number of
\* occupied cells is the length of move_history.
C28_HistoryGrid ==
    pc = "board" =>
        LET occupied == {<<row, col>> \in RowIdx \X ColIdx :
                            board[row][col] # "EMPTY"}
        IN /\ \A i, j \in 1..Len(move_history) :
                 i # j => move_history[i].position # move_history[j].position
           /\ \A i \in 1..Len(move_history) :
                 /\ move_history[i].player \in Movers
                 /\ board[move_history[i].position.row]
                         [move_history[i].position.col]
                        = move_history[i].player
           /\ \A cell \in occupied :
                 \E i \in 1..Len(move_history) :
                    move_history[i].position = Position(cell[1], cell[2])
           /\ Cardinality(occupied) = Len(move_history)

\* A make_move stacked a piece on a piece of the other player, beside a
\* column that holds the first piece: three entries, three occupied cells.
C28_Witness ==
    /\ pc = "board"
    /\ call.op = "make_move"
    /\ call.result = "SUCCESS"
    /\ Len(move_history) = 3
    /\ move_history[3].player # move_history[2].player
    /\ move_history[3].position.col = move_history[2].position.col
    /\ move_history[3].position.col # move_history[1].position.col

\* C29: in every state of a round driven by the engine, two-player or
\* single-player, there are as many RED pieces as YELLOW ones or one more,
\* consecutive history entries belong to different players, and while the
\* round is PLAYING the active player is RED exactly when the history
\* length is even.
C29_Alternation ==
    pc \in {"setup", "reset", "turn", "human_turn", "result", "done"} =>
        LET pieces(p) == Cardinality({<<row, col>> \in RowIdx \X ColIdx :
                                         board[row][col] = p})
        IN /\ pieces("RED") - pieces("YELLOW") \in {0, 1}
           /\ \A i \in 1..(Len(move_history) - 1) :
                 move_history[i].player # move_history[i + 1].player
           /\ RoundPlaying =>
                 (current_player = "RED" <=> Len(move_history) % 2 = 0)

\* Against the AI, YELLOW is to move on a board of three RED and two YELLOW
\* pieces.
C29_Witness ==
    /\ RoundPlaying
    /\ is_single_player
    /\ current_player = "YELLOW"
    /\ Len(move_history) = 5
    /\ move_history[1].player = "RED"

\* C30: whenever a round driven by the engine has halted in RED_WINS or
\* YELLOW_WINS, the winner is the player of the last entry of move_history
\* and is the engine's current_player: no player wins on the other's turn.
C30_WinnerMovedLast ==
    game_state \in {"RED_WINS", "YELLOW_WINS"} =>
        /\ move_history # << >>
        /\ LET last == move_history[Len(move_history)].player IN
           /\ game_state = IF last = "RED" THEN "RED_WINS" ELSE "YELLOW_WINS"
           /\ current_player = last
           /\ OwnsLine(board, last)
           /\ ~OwnsLine(board, opposite(last))

\* A round against the AI halted with RED's win on RED's fifth piece.
C30_Witness ==
    /\ pc = "result"
    /\ is_single_player
    /\ game_state = "RED_WINS"
    /\ current_player = "RED"
    /\ Len(move_history) = 9
    /\ move_history[9].player = "RED"

\* C27: while get_move runs, the grid and the history differ from those it
\* was called with only between a simulated make_move and its undo, where
\* they hold one piece more, which nobody played; a reader that is not
\* interleaved with get_move, seeing the board before the call or after the
\* return, never sees such a piece, and get_move run at once returns the
\* same column and leaves the same board.
C27_TransientPiece ==
    (pc = "search" /\ search.stage # "idle") =>
        LET entry == search.entry IN
        /\ search.stage \in {"loop", "returned"} =>
              /\ board = entry.board
              /\ move_history = entry.move_history
        /\ search.stage \in {"made", "checked"} =>
              /\ Len(move_history) = Len(entry.move_history) + 1
              /\ SubSeq(move_history, 1, Len(entry.move_history))
                     = entry.move_history
              /\ Cardinality(ChangedCells(entry.board, board)) = 1
        /\ search.stage = "returned" =>
              LET ai == get_move(entry.board, entry.move_history,
                                 search.explore, search.choice)
              IN /\ ai.move = search.move
                 /\ ai.board = board
                 /\ ai.move_history = move_history

\* A reader called check_winner between a simulated make_move and its undo:
\* it was told that RED has won, in a round that is PLAYING and in which RED
\* never placed the piece that completes the line.
C27_Witness ==
    /\ pc = "search"
    /\ search.stage \in {"made", "checked"}
    /\ call.op = "check_winner"
    /\ call.result = "RED_WINS"
    /\ check_winner(search.entry.board) = "PLAYING"
    /\ check_winner(board) = "RED_WINS"
    /\ move_history[Len(move_history)].player = "RED"
    /\ board # search.entry.board

\* C31: in every board state of a round driven by the engine RED and
\* YELLOW never both own a line of win_length cells, so check_winner reports
\* the one owner of a line whatever cell the scan of _find_winner_on_board
\* meets first.
C31_OneWinner ==
    pc \in {"setup", "reset", "turn", "human_turn", "result", "done"} =>
        /\ ~(OwnsLine(board, "RED") /\ OwnsLine(board, "YELLOW"))
        /\ OwnsLine(board, "RED") => check_winner(board) = "RED_WINS"
        /\ OwnsLine(board, "YELLOW") => check_winner(board) = "YELLOW_WINS"

\* YELLOW has won with a line that the row-major scan meets after cells of
\* RED: the top left piece of the grid is RED's.
C31_Witness ==
    /\ pc = "result"
    /\ game_state = "YELLOW_WINS"
    /\ OwnsLine(board, "YELLOW")
    /\ \E row \in RowIdx, col \in ColIdx :
          /\ board[row][col] = "RED"
          /\ \A r2 \in RowIdx, c2 \in ColIdx :
                board[r2][c2] = "YELLOW" =>
                    r2 > row \/ (r2 = row /\ c2 > col)

\* C32: on every board make_move builds, is_valid_move(c) for c in
\* [1, cols] is true exactly when column c has an Empty cell, which is when
\* get_column_height(c) < rows, and is_full is true exactly when no cell of
\* the grid is Empty, although both look at row 0 only.
C32_TopRowExact ==
    pc = "grid" =>
        /\ \A col \in 1..config.cols :
              /\ is_valid_move(board, col)
                    <=> \E row \in RowIdx : board[row][col - 1] = "EMPTY"
              /\ is_valid_move(board, col)
                    <=> get_column_height(board, col) < config.rows
        /\ is_full(board)
              <=> \A row \in RowIdx, col \in ColIdx : board[row][col] # "EMPTY"

\* Some cells of row 0 are occupied and others are not: a column is full
\* beside a column that is not, and the board is not full.
C32_Witness ==
    /\ pc = "grid"
    /\ ~is_valid_move(board, 1)
    /\ is_valid_move(board, 2)
    /\ get_column_height(board, 1) = config.rows
    /\ ~is_full(board)

\* C33: in a single-player round, whenever play_ai_turn is about to run,
\* the board has a valid column, get_move returns a column by either of its
\* random branches, make_move on that column returns SUCCESS, and
\* play_ai_turn leaves the history longer by exactly one YELLOW entry in
\* that column: neither the fallback to the first valid column nor the
\* branch without a move is taken.
C33_AiTurnPlacesOne ==
    AiToMove =>
        /\ get_valid_moves(board) # << >>
        /\ \A explore \in BOOLEAN, choice \in Choices(board) :
              (explore \/ choice = 1) =>
                 \A ai \in {get_move(board, move_history, explore, choice)} :
                 \A made \in {make_move(ai.board, ai.move_history, ai.move,
                                        current_player)} :
                 \A played \in {play_ai_turn(board, move_history,
                                             current_player, explore, choice)} :
                    /\ ai.move # 0
                    /\ made.result = "SUCCESS"
                    /\ played.call = Call("make_move", ai.move, "YELLOW",
                                          "SUCCESS", FALSE)
                    /\ played.board = made.board
                    /\ Len(played.move_history) = Len(move_history) + 1
                    /\ SubSeq(played.move_history, 1, Len(move_history))
                           = move_history
                    /\ played.move_history[Len(played.move_history)].player
                           = "YELLOW"
                    /\ played.move_history[Len(played.move_history)]
                           .position.col = ai.move - 1

\* play_ai_turn has placed YELLOW's third piece, in a column that was not
\* the first valid one, and the round goes on.
C33_Witness ==
    /\ pc = "turn"
    /\ is_single_player
    /\ game_state = "PLAYING"
    /\ current_player = "RED"
    /\ call = Call("make_move", call.col, "YELLOW", "SUCCESS", FALSE)
    /\ Len(move_history) = 6
    /\ move_history[6].player = "YELLOW"
    /\ move_history[6].position.col = call.col - 1
    /\ call.col > 1
    /\ board[0][0] = "EMPTY"

====
